---- MODULE Spec2Model ----
(***************************************************************************)
(* Model of the subcommand dispatcher of mkvtool/subtool (main.go).        *)
(* One process run: startup, runner selection, one subcommand case of the  *)
(* switch (loops advance one file per step), then the error report.        *)
(* The callees that live outside main.go (remux, extract, submux, rename,  *)
(* setdefault, trackByLanguage, mustParseFile, the two runners) are        *)
(* modelled at their boundary: their result is an input of the step.       *)
(***************************************************************************)
EXTENDS Integers, Sequences, FiniteSets, TLC

\* Bounds of the model.
MaxFiles == 2
NumNames == 2

FileNames == 1..NumNames
OutPath == NumNames + 1
TmpPath == NumNames + 2

Commands == {"version", "merge", "only", "print", "remux", "rename",
             "setdefault", "setdefaultbylang", "show"}
LoopCommands == {"print", "rename", "setdefault", "setdefaultbylang", "show"}
Outcomes == {"nil", "err"}

VARIABLES pc, k, dryrun, run, files, exists, todo, skipped, processed,
          results, errors, calls, changed, tmpExists, removeRes, exit

vars == <<pc, k, dryrun, run, files, exists, todo, skipped, processed,
          results, errors, calls, changed, tmpExists, removeRes, exit>>

\* Non-empty argument lists of at most n names.
ListsUpTo(n) == UNION {[1..m -> FileNames] : m \in 1..n}

\* Arguments each subcommand takes (kingpin declarations).
InputsOf(cmd) ==
    IF cmd = "version" THEN {<<>>}
    ELSE IF cmd \in {"only", "remux"} THEN ListsUpTo(1)
    ELSE ListsUpTo(MaxFiles)

\* readable: the files of the list that os.Stat finds, in order.
readableUnfiltered(fnames, onDisk) == fnames
RECURSIVE readable(_, _)
readable(fnames, onDisk) ==
    IF fnames = <<>> THEN <<>>
    ELSE IF Head(fnames) \in onDisk
         THEN <<Head(fnames)>> \o readable(Tail(fnames), onDisk)
         ELSE readable(Tail(fnames), onDisk)

\* readable: the "not readable. Skipping." log lines, in order.
RECURSIVE readableLog(_, _)
readableLog(fnames, onDisk) ==
    IF fnames = <<>> THEN <<>>
    ELSE IF Head(fnames) \in onDisk
         THEN readableLog(Tail(fnames), onDisk)
         ELSE <<Head(fnames)>> \o readableLog(Tail(fnames), onDisk)

\* The list each loop ranges over: print takes the raw arguments, the
\* others take readable(arguments).
LoopList(cmd, fnames, onDisk) ==
    IF cmd = "print" THEN fnames ELSE readable(fnames, onDisk)

LoopSkipped(cmd, fnames, onDisk) ==
    IF cmd = "print" THEN <<>> ELSE readableLog(fnames, onDisk)

\* Error values of the errors slice.
Nil == [file |-> 0, kind |-> "nil"]
Err(f, kind) == [file |-> f, kind |-> kind]
RawErr(res) == IF res = "nil" THEN Nil ELSE [file |-> 0, kind |-> "op"]

\* run = runCmd; if *dryrun { run = fakeRunCmd }
SelectRunnerAlwaysLive(d) == "runCmd"
SelectRunner(d) == IF d THEN "fakeRunCmd" ELSE "runCmd"

\* Runner contract: the fake runner invokes nothing and always succeeds.
RunnerRun(r, o) == IF r = "fakeRunCmd" THEN "nil" ELSE o
RunnerEffect(r, res, path) ==
    IF r = "runCmd" /\ res = "nil" THEN {path} ELSE {}

\* Container Inspector: outcomes of parsing one file.  A failed parse either
\* ends the process or hands back an unusable container.
mustParseFile(f, onDisk) ==
    IF f \in onDisk THEN {"ok", "abort", "invalid"} ELSE {"abort", "invalid"}

\* Result of a callee that works on a parsed container through the runner.
OpResult(r, p, o) == IF p = "invalid" THEN o ELSE RunnerRun(r, o)

\* rename(format, fname, dryrun): renames the file unless dryrun.
renameEffect(d, res, f) == IF ~d /\ res = "nil" THEN {f} ELSE {}

\* One mutating call as issued by the dispatcher, with its result.
Call(op, ins, r, flag, iter, res) ==
    [op |-> op, ins |-> ins, run |-> r, flag |-> flag, iter |-> iter,
     res |-> res]

mergeCall(ins, r, subs, res) == Call("remux", ins, r, subs, 0, res)
remuxCall(ins, r, res) == Call("remux", ins, r, TRUE, 0, res)
extractCall(f, r, res) == Call("extract", <<f>>, r, FALSE, 0, res)
submuxCall(f, r, res) == Call("submux", <<f>>, r, TRUE, 0, res)
renameCall(f, d, i, res) == Call("rename", <<f>>, "none", d, i, res)
setdefaultCallLive(f, r, i, res) ==
    Call("setdefault", <<f>>, "runCmd", FALSE, i, res)
setdefaultCall(f, r, i, res) == Call("setdefault", <<f>>, r, FALSE, i, res)

\* only case: the mutating calls issued, given extract's result.
onlyCallsNoBreak(f, r, eres, sres) ==
    <<extractCall(f, r, eres), submuxCall(f, r, sres)>>
onlyCalls(f, r, eres, sres) ==
    IF eres # "nil" THEN <<extractCall(f, r, eres)>>
    ELSE <<extractCall(f, r, eres), submuxCall(f, r, sres)>>

\* only case: what is appended to errors; os.Remove's result is discarded.
onlyErrorsWithRemove(f, eres, sres, rmres) ==
    IF eres # "nil" THEN <<Err(f, "extract")>>
    ELSE IF rmres = "err" THEN <<RawErr(sres), Err(f, "remove")>>
    ELSE <<RawErr(sres)>>
onlyErrors(f, eres, sres, rmres) ==
    IF eres # "nil" THEN <<Err(f, "extract")>> ELSE <<RawErr(sres)>>

\* only case: os.Remove is reached only past the break.
onlyRemoves(eres) == eres = "nil"

\* setdefaultbylang case: calls, errors and continuation of one iteration.
byLangCallsNoCheck(f, r, i, sel, res) == <<setdefaultCall(f, r, i, res)>>
byLangCalls(f, r, i, sel, res) ==
    IF sel # "nil" THEN <<>> ELSE <<setdefaultCall(f, r, i, res)>>
byLangErrors(f, sel, res) ==
    IF sel # "nil" THEN <<Err(f, "select")>>
    ELSE IF res # "nil" THEN <<Err(f, "op")>> ELSE <<>>
byLangNextPc(sel) == IF sel # "nil" THEN "report" ELSE "loop"

\* for _, err := range errors { if err != nil { failed = true } }
failedAnyEntry(errs) == Len(errs) > 0
failed(errs) == \E i \in 1..Len(errs) : errs[i] # Nil

Result(f, p, sel, op) == [file |-> f, parse |-> p, sel |-> sel, op |-> op]

Init ==
    /\ pc = "start"
    /\ k \in Commands
    /\ dryrun \in BOOLEAN
    /\ files \in InputsOf(k)
    /\ exists \in SUBSET FileNames
    /\ run = "unset"
    /\ todo = <<>>
    /\ skipped = <<>>
    /\ processed = <<>>
    /\ results = <<>>
    /\ errors = <<>>
    /\ calls = <<>>
    /\ changed = {}
    /\ tmpExists = FALSE
    /\ removeRes = "none"
    /\ exit = "running"

\* requirements() fails: log.Fatalf before anything else.
RequirementsFail ==
    /\ pc = "start"
    /\ pc' = "exited"
    /\ exit' = "RequirementsFatal"
    /\ UNCHANGED <<k, dryrun, run, files, exists, todo, skipped, processed,
                   results, errors, calls, changed, tmpExists, removeRes>>

\* Arguments parsed, runner selected.
Startup ==
    /\ pc = "start"
    /\ run' = SelectRunner(dryrun)
    /\ pc' = "dispatch"
    /\ UNCHANGED <<k, dryrun, files, exists, todo, skipped, processed,
                   results, errors, calls, changed, tmpExists, removeRes,
                   exit>>

Version ==
    /\ pc = "dispatch" /\ k = "version"
    /\ pc' = "report"
    /\ UNCHANGED <<k, dryrun, run, files, exists, todo, skipped, processed,
                   results, errors, calls, changed, tmpExists, removeRes,
                   exit>>

Merge ==
    /\ pc = "dispatch" /\ k = "merge"
    /\ \E subs \in BOOLEAN, o \in Outcomes :
         LET res == RunnerRun(run, o) IN
         /\ calls' = Append(calls, mergeCall(files, run, subs, res))
         /\ errors' = Append(errors, RawErr(res))
         /\ changed' = changed \cup RunnerEffect(run, res, OutPath)
    /\ pc' = "report"
    /\ UNCHANGED <<k, dryrun, run, files, exists, todo, skipped, processed,
                   results, tmpExists, removeRes, exit>>

Remux ==
    /\ pc = "dispatch" /\ k = "remux"
    /\ \E o \in Outcomes :
         LET res == RunnerRun(run, o) IN
         /\ calls' = Append(calls, remuxCall(<<files[1]>>, run, res))
         /\ errors' = Append(errors, RawErr(res))
         /\ changed' = changed \cup RunnerEffect(run, res, OutPath)
    /\ pc' = "report"
    /\ UNCHANGED <<k, dryrun, run, files, exists, todo, skipped, processed,
                   results, tmpExists, removeRes, exit>>

Only ==
    /\ pc = "dispatch" /\ k = "only"
    /\ \E p \in mustParseFile(files[1], exists), e \in Outcomes,
          made \in BOOLEAN, s \in Outcomes, rm \in Outcomes :
         LET f == files[1]
             eres == OpResult(run, p, e)
             sres == OpResult(run, p, s)
             tmpAfter == IF eres = "nil" /\ run = "runCmd" THEN TRUE ELSE made
             rmres == IF tmpAfter THEN rm ELSE "err"
         IN
         IF p = "abort"
         THEN /\ pc' = "exited"
              /\ exit' = "ParseFatal"
              /\ results' = Append(results, Result(f, p, "none", "none"))
              /\ UNCHANGED <<errors, calls, changed, tmpExists, removeRes>>
         ELSE /\ pc' = "report"
              /\ exit' = exit
              /\ results' = Append(results, Result(f, p, "none", eres))
              /\ calls' = calls \o onlyCalls(f, run, eres, sres)
              /\ errors' = errors \o onlyErrors(f, eres, sres, rmres)
              /\ changed' = changed \cup RunnerEffect(run, eres, TmpPath)
                     \cup (IF eres = "nil"
                           THEN RunnerEffect(run, sres, OutPath) ELSE {})
              /\ removeRes' = IF onlyRemoves(eres) THEN rmres ELSE "none"
              /\ tmpExists' = IF onlyRemoves(eres)
                              THEN tmpAfter /\ rmres = "err" ELSE tmpAfter
    /\ UNCHANGED <<k, dryrun, run, files, exists, todo, skipped, processed>>

\* The range expression of a loop is evaluated once, on entry.
EnterLoop ==
    /\ pc = "dispatch" /\ k \in LoopCommands
    /\ todo' = LoopList(k, files, exists)
    /\ skipped' = LoopSkipped(k, files, exists)
    /\ pc' = "loop"
    /\ UNCHANGED <<k, dryrun, run, files, exists, processed, results, errors,
                   calls, changed, tmpExists, removeRes, exit>>

PrintFile ==
    /\ pc = "loop" /\ k = "print" /\ todo # <<>>
    /\ \E o \in Outcomes :
         LET f == Head(todo) IN
         /\ processed' = Append(processed, f)
         /\ results' = Append(results, Result(f, "none", "none", o))
         /\ errors' = IF o # "nil" THEN Append(errors, Err(f, "format"))
                      ELSE errors
    /\ todo' = Tail(todo)
    /\ UNCHANGED <<pc, k, dryrun, run, files, exists, skipped, calls, changed,
                   tmpExists, removeRes, exit>>

RenameFile ==
    /\ pc = "loop" /\ k = "rename" /\ todo # <<>>
    /\ \E o \in Outcomes :
         LET f == Head(todo)
             i == Len(processed) + 1
         IN
         /\ processed' = Append(processed, f)
         /\ results' = Append(results, Result(f, "none", "none", o))
         /\ calls' = Append(calls, renameCall(f, dryrun, i, o))
         /\ errors' = IF o # "nil" THEN Append(errors, Err(f, "op"))
                      ELSE errors
         /\ changed' = changed \cup renameEffect(dryrun, o, f)
    /\ todo' = Tail(todo)
    /\ UNCHANGED <<pc, k, dryrun, run, files, exists, skipped, tmpExists,
                   removeRes, exit>>

SetDefaultFile ==
    /\ pc = "loop" /\ k = "setdefault" /\ todo # <<>>
    /\ \E p \in mustParseFile(Head(todo), exists), o \in Outcomes :
         LET f == Head(todo)
             i == Len(processed) + 1
             res == OpResult(run, p, o)
         IN
         /\ processed' = Append(processed, f)
         /\ IF p = "abort"
            THEN /\ pc' = "exited"
                 /\ exit' = "ParseFatal"
                 /\ results' = Append(results, Result(f, p, "none", "none"))
                 /\ UNCHANGED <<errors, calls, changed>>
            ELSE /\ pc' = pc
                 /\ exit' = exit
                 /\ results' = Append(results, Result(f, p, "none", res))
                 /\ calls' = Append(calls, setdefaultCall(f, run, i, res))
                 /\ errors' = IF res # "nil"
                              THEN Append(errors, Err(f, "op")) ELSE errors
                 /\ changed' = changed \cup RunnerEffect(run, res, f)
    /\ todo' = Tail(todo)
    /\ UNCHANGED <<k, dryrun, run, files, exists, skipped, tmpExists,
                   removeRes>>

SetDefaultByLangFile ==
    /\ pc = "loop" /\ k = "setdefaultbylang" /\ todo # <<>>
    /\ \E p \in mustParseFile(Head(todo), exists), sel \in Outcomes,
          o \in Outcomes :
         LET f == Head(todo)
             i == Len(processed) + 1
             res == OpResult(run, p, o)
         IN
         /\ processed' = Append(processed, f)
         /\ IF p = "abort"
            THEN /\ pc' = "exited"
                 /\ exit' = "ParseFatal"
                 /\ results' = Append(results, Result(f, p, "none", "none"))
                 /\ UNCHANGED <<errors, calls, changed>>
            ELSE /\ pc' = byLangNextPc(sel)
                 /\ exit' = exit
                 /\ results' = Append(results,
                        Result(f, p, sel, IF sel = "nil" THEN res ELSE "none"))
                 /\ calls' = calls \o byLangCalls(f, run, i, sel, res)
                 /\ errors' = errors \o byLangErrors(f, sel, res)
                 /\ changed' = changed \cup
                        (IF sel = "nil" THEN RunnerEffect(run, res, f) ELSE {})
    /\ todo' = Tail(todo)
    /\ UNCHANGED <<k, dryrun, run, files, exists, skipped, tmpExists,
                   removeRes>>

ShowFile ==
    /\ pc = "loop" /\ k = "show" /\ todo # <<>>
    /\ \E p \in mustParseFile(Head(todo), exists) :
         LET f == Head(todo) IN
         /\ processed' = Append(processed, f)
         /\ results' = Append(results, Result(f, p, "none", "none"))
         /\ IF p = "abort"
            THEN pc' = "exited" /\ exit' = "ParseFatal"
            ELSE pc' = pc /\ exit' = exit
    /\ todo' = Tail(todo)
    /\ UNCHANGED <<k, dryrun, run, files, exists, skipped, errors, calls,
                   changed, tmpExists, removeRes>>

LoopEnd ==
    /\ pc = "loop" /\ todo = <<>>
    /\ pc' = "report"
    /\ UNCHANGED <<k, dryrun, run, files, exists, todo, skipped, processed,
                   results, errors, calls, changed, tmpExists, removeRes,
                   exit>>

\* Print the errors; log.Fatalln("Execution failed") if any is non-nil.
Report ==
    /\ pc = "report"
    /\ exit' = IF failed(errors) THEN "ExecutionFailed" ELSE "ok"
    /\ pc' = "exited"
    /\ UNCHANGED <<k, dryrun, run, files, exists, todo, skipped, processed,
                   results, errors, calls, changed, tmpExists, removeRes>>

Next ==
    \/ RequirementsFail
    \/ Startup
    \/ Version
    \/ Merge
    \/ Remux
    \/ Only
    \/ EnterLoop
    \/ PrintFile
    \/ RenameFile
    \/ SetDefaultFile
    \/ SetDefaultByLangFile
    \/ ShowFile
    \/ LoopEnd
    \/ Report

Spec == Init /\ [][Next]_vars

(***************************************************************************)
(* Properties.                                                             *)
(***************************************************************************)
OnDisk(f) == f \in exists
NotOnDisk(f) == f \notin exists
ArgsOnDisk == SelectSeq(files, OnDisk)
ArgsNotOnDisk == SelectSeq(files, NotOnDisk)
IsPrefix(s, t) == Len(s) <= Len(t) /\ \A i \in 1..Len(s) : s[i] = t[i]
NonNil(errs) == {i \in 1..Len(errs) : errs[i].kind # "nil"}
Finished == pc = "exited" /\ exit \in {"ok", "ExecutionFailed"}

\* The path a successful live call changes.
Target(c) ==
    IF c.op \in {"remux", "submux"} THEN OutPath
    ELSE IF c.op = "extract" THEN TmpPath
    ELSE c.ins[1]

\* C1: in rename, setdefault and setdefaultbylang, when one file fails with
\* a selection error or an external-operation error, every later file of
\* the list is still processed: a run that reached the report has gone
\* through the whole list of readable files (all of which parsed).
PerFileFailureIsolation ==
    (k \in {"rename", "setdefault", "setdefaultbylang"} /\ Finished
        /\ \A j \in 1..Len(results) : results[j].parse \in {"ok", "none"}) =>
        \A i \in 1..Len(results) :
            (results[i].sel = "err" \/ results[i].op = "err") =>
                processed = ArgsOnDisk

\* C2: on every exit path of the only pipeline that called extract on the
\* parsed input (extract failed, remux failed, remux succeeded), removal of the
\* temporary artifact has been attempted.
OnlyCleanupOnEveryExitPath ==
    (k = "only" /\ pc \in {"report", "exited"} /\ calls # <<>>
        /\ results[1].parse = "ok") =>
        removeRes # "none"

\* C3: the process ends with "Execution failed" exactly when some recorded
\* error is non-nil; a run that reaches the report with only nil entries,
\* or none, exits with status zero; the status does not depend on how many
\* entries are non-nil.
ExitStatusReflectsErrors ==
    /\ exit = "ExecutionFailed" => NonNil(errors) # {}
    /\ Finished => /\ exit = "ExecutionFailed" <=> NonNil(errors) # {}
                   /\ exit = "ok" <=> NonNil(errors) = {}

ManyFailuresOneStatus ==
    exit = "ExecutionFailed" /\ Cardinality(NonNil(errors)) >= 2

\* C4: with --dry-run every mutating call goes to the fake runner (rename
\* gets the dry-run flag) and no path is changed; without it every
\* successful mutating call has changed its target path.
DryRunPurity ==
    /\ dryrun =>
         /\ changed = {}
         /\ \A i \in 1..Len(calls) :
              IF calls[i].op = "rename" THEN calls[i].flag = TRUE
              ELSE calls[i].run = "fakeRunCmd"
    /\ ~dryrun =>
         \A i \in 1..Len(calls) :
            calls[i].res = "nil" => Target(calls[i]) \in changed

DryRunMutationRequested ==
    /\ dryrun /\ pc = "exited"
    /\ \E i \in 1..Len(calls) : calls[i].op = "submux"

\* C5: in setdefaultbylang, a file whose track selection fails gets its
\* error recorded and no setdefault call; every setdefault call belongs to
\* a file whose selection succeeded.
NoMutationAfterFailedSelection ==
    k = "setdefaultbylang" =>
        /\ \A i \in 1..Len(results) :
             results[i].sel = "err" =>
                /\ \E j \in 1..Len(errors) :
                      errors[j] = [file |-> results[i].file, kind |-> "select"]
                /\ \A c \in 1..Len(calls) : calls[c].iter # i
        /\ \A c \in 1..Len(calls) :
             /\ calls[c].iter \in 1..Len(results)
             /\ results[calls[c].iter].sel = "nil"
             /\ results[calls[c].iter].file = calls[c].ins[1]

SelectionFailedAfterSuccess ==
    /\ k = "setdefaultbylang" /\ pc = "exited"
    /\ Len(results) = 2 /\ results[1].sel = "nil" /\ results[2].sel = "err"
    /\ Len(calls) = 1

\* C6: in setdefault, setdefaultbylang and show, a file that exists but
\* fails to parse gets a per-file error recorded, and the process goes on
\* to handle every other file of the list before it ends.
ParseFailureIsolation ==
    (k \in {"setdefault", "setdefaultbylang", "show"} /\ pc = "exited") =>
        \A i \in 1..Len(results) :
            results[i].parse \in {"abort", "invalid"} =>
                /\ \E j \in 1..Len(errors) :
                      errors[j].file = results[i].file /\ errors[j].kind # "nil"
                /\ processed = ArgsOnDisk

\* Unreadable arguments are logged as skipped and dropped before the
\* subcommand handles them, no error is recorded for them, and the files
\* handled are the readable ones in their original order.
SkipsUnreadable(cmds) ==
    (k \in cmds /\ pc \in {"loop", "report", "exited"}
        /\ exit # "RequirementsFatal") =>
        /\ skipped = ArgsNotOnDisk
        /\ IsPrefix(processed, ArgsOnDisk)
        /\ \A i \in 1..Len(calls) :
              \A j \in 1..Len(calls[i].ins) : calls[i].ins[j] \in exists
        /\ \A i \in 1..Len(errors) : errors[i].file \notin (FileNames \ exists)

\* C7 (as stated): SkipsUnreadable for merge, print, rename, setdefault,
\* setdefaultbylang and show.
UnreadableSkippedEverywhere ==
    SkipsUnreadable({"merge", "print", "rename", "setdefault",
                     "setdefaultbylang", "show"})

\* C7 (amended): SkipsUnreadable for rename, setdefault, setdefaultbylang
\* and show, the subcommands that range over readable(); merge and print
\* take their arguments unfiltered.
UnreadableSkippedInReadableLoops ==
    SkipsUnreadable({"rename", "setdefault", "setdefaultbylang", "show"})

UnreadableSkippedThenProcessed ==
    /\ k \in {"rename", "setdefault", "setdefaultbylang", "show"}
    /\ pc = "exited" /\ exit = "ok"
    /\ skipped # <<>> /\ processed # <<>>

\* C8: after only has reached os.Remove, the recorded errors and the exit
\* status are those of the remux step alone, whether the removal succeeded
\* or failed.
CleanupNeverMasksOutcome ==
    (k = "only" /\ removeRes # "none") =>
        /\ Len(calls) = 2
        /\ Len(errors) = 1
        /\ errors[1].kind = "nil" <=> calls[2].res = "nil"
        /\ pc = "exited" => (exit = "ok" <=> calls[2].res = "nil")

RemovalFailedExitOk ==
    k = "only" /\ removeRes = "err" /\ pc = "exited" /\ exit = "ok"

\* C9 (as stated): every mutating call of the dispatcher, rename included,
\* receives the one Runner chosen at startup.
EveryCallGetsTheRunner ==
    \A i \in 1..Len(calls) : calls[i].run = run

RunnerChosen ==
    /\ (pc # "start" /\ exit # "RequirementsFatal") =>
          run = (IF dryrun THEN "fakeRunCmd" ELSE "runCmd")
    /\ \A i \in 1..Len(calls) :
          IF calls[i].op = "rename"
          THEN calls[i].run = "none" /\ calls[i].flag = dryrun
          ELSE calls[i].run = run

\* C9 (amended): one Runner is chosen at startup, before dispatch, and never
\* reassigned; merge, extract, submux, remux and setdefault calls receive
\* that Runner, while rename receives the dry-run flag and no Runner.
RunnerThreadedExceptRename ==
    [] RunnerChosen /\ [][run' # run => pc = "start"]_vars

RunnerReachedSecondFile ==
    /\ k = "setdefault" /\ dryrun /\ Len(calls) = 2
    /\ calls[2].run = "fakeRunCmd"

\* C10: in only, extract is the first call; the remux (submux) call is
\* issued exactly when extract returned nil, after it, on the same input,
\* with the sole-subtitle flag true; when extract fails exactly one error,
\* carrying the input file name, is recorded and no remux is requested.
OnlyPipelineOrder ==
    (k = "only" /\ pc \in {"report", "exited"} /\ exit # "ParseFatal"
        /\ exit # "RequirementsFatal") =>
        /\ Len(calls) \in {1, 2}
        /\ calls[1].op = "extract"
        /\ calls[1].res = "nil" <=> Len(calls) = 2
        /\ Len(calls) = 2 =>
              /\ calls[2].op = "submux"
              /\ calls[2].flag = TRUE
              /\ calls[2].ins = <<files[1]>>
        /\ calls[1].res # "nil" =>
              /\ Len(errors) = 1
              /\ errors[1].file = files[1]
              /\ errors[1].kind # "nil"
              /\ \A i \in 1..Len(calls) : calls[i].op # "submux"

ExtractFailedNoRemux ==
    k = "only" /\ pc = "exited" /\ calls # <<>> /\ calls[1].res = "err"

====
